---- MODULE Spec2Model ----
(***************************************************************************)
(* Bot-detection proxy: the classifier library (lib/botDetection.ts), the  *)
(* three middleware variants (redirect, SSR reverse proxy, reverse proxy   *)
(* with redirect fallback), buildRedirectUrl and the configuration API     *)
(* (pages/api/config.ts, pages/api/config/[id].ts) over the KV store.      *)
(*                                                                         *)
(* JavaScript strings are TLA+ strings; TLC evaluates Len, \o and SubSeq   *)
(* on them, so includes/toLowerCase/split/join/replace are computed        *)
(* character by character as the runtime does.                             *)
(***************************************************************************)
EXTENDS Integers, Sequences, FiniteSets, TLC

VARIABLES
    libArgs,     \* arguments of the pending/last call into lib/botDetection.ts
    libResult,   \* <<r>> once detectBot has returned r, <<>> before
    libBool,     \* <<b>> once isBotRequest has returned b, <<>> before
    urlArgs,     \* arguments of the pending/last buildRedirectUrl call
    urlResult,   \* <<s>> once buildRedirectUrl has returned s, <<>> before
    variant,     \* which middleware file is deployed
    env,         \* process.env: REAL_URL and BOT_URL
    inbound,     \* the inbound NextRequest being handled (NoRequest when idle)
    pc,          \* position of the middleware handler
    isBot,       \* the verdict computed by the variant's classifier
    targetUrl,   \* isBot ? BOT_URL : REAL_URL
    outbound,    \* outbound fetch calls issued for the request, in order
    fetched,     \* what the awaited fetch settled with: the upstream response,
                 \* Thrown when it rejected, NoResponse while none has settled
    response,    \* the NextResponse returned (NoResponse until then)
    parked,      \* the invocations suspended at their await, oldest first
    apiEnv,      \* process.env of the API routes: VERCEL_URL
    kvStore,     \* the KV store: key -> stored value
    apiReq,      \* the last NextApiRequest handled (NoRequest before)
    apiRes,      \* the response sent for it (NoResponse before)
    clock,       \* the last reading of Date.now()
    generated,   \* how many identifiers nanoid() has generated
    returned,    \* the bodies of the 201 responses sent so far
    kvSettled    \* how the awaited kv call of the last request settled

vars == <<libArgs, libResult, libBool, urlArgs, urlResult,
          variant, env, inbound, pc, isBot, targetUrl, outbound, fetched, response, parked,
          apiEnv, kvStore, apiReq, apiRes, clock, generated, returned, kvSettled>>

libVars == <<libArgs, libResult, libBool>>
urlVars == <<urlArgs, urlResult>>
mwVars  == <<variant, env, inbound, pc, isBot, targetUrl, outbound, fetched, response,
            parked>>
apiVars == <<apiEnv, kvStore, apiReq, apiRes, clock, generated, returned, kvSettled>>

-----------------------------------------------------------------------------
(* JavaScript values                                                       *)

\* null (Headers.get of an absent header) and undefined (unset env variable)
null == "<null>"
undefined == "<undefined>"

\* ToBoolean of a string-or-null value: null, undefined and '' are falsy
Truthy(v) == v # null /\ v # undefined /\ v # ""

\* a || b
OrElse(a, b) == IF Truthy(a) THEN a ELSE b

\* The exception value of a call that throws
Thrown == [thrown |-> TRUE]

\* A body whose stream cannot be read: text() rejects on it
Unreadable == "<unreadable>"

-----------------------------------------------------------------------------
(* String.prototype methods                                                *)

CharAt(s, i) == SubSeq(s, i, i)

UpperCase == "ABCDEFGHIJKLMNOPQRSTUVWXYZ"
LowerCase == "abcdefghijklmnopqrstuvwxyz"

LowerChar(c) ==
    IF \E k \in 1..Len(UpperCase) : CharAt(UpperCase, k) = c
    THEN CharAt(LowerCase, CHOOSE k \in 1..Len(UpperCase) : CharAt(UpperCase, k) = c)
    ELSE c

RECURSIVE toLowerCase(_)
toLowerCase(s) ==
    IF s = "" THEN ""
    ELSE IF Len(s) = 1 THEN LowerChar(s)
    ELSE LET half == Len(s) \div 2
         IN  toLowerCase(SubSeq(s, 1, half)) \o toLowerCase(SubSeq(s, half + 1, Len(s)))

\* s.includes(p)
includes(s, p) ==
    \E i \in 1..(Len(s) - Len(p) + 1) : SubSeq(s, i, i + Len(p) - 1) = p

\* patterns.some(pattern => s.includes(pattern))
someIncluded(patterns, s) ==
    \E k \in 1..Len(patterns) : includes(s, patterns[k])

-----------------------------------------------------------------------------
(* lib/botDetection.ts                                                     *)

\* Variant: the crawler names in lower case
TIKTOK_BOT_PATTERNS_lower == <<"bytespider", "tiktokspider">>

TIKTOK_BOT_PATTERNS == <<"Bytespider", "TikTokSpider">>

CHATGPT_AI_BOT_PATTERNS ==
    <<"chatgpt-user", "gptbot", "openai", "claude-web", "anthropic-ai",
      "anthropic", "perplexitybot", "perplexity", "coherebot", "cohere",
      "bingbot", "google-extended", "omgilibot", "omgili",
      "facebookexternalhit", "meta-externalagent">>

GENERIC_BOT_PATTERNS ==
    <<"bot", "crawler", "spider", "scraper", "curl", "wget",
      "python-requests", "java/", "go-http-client", "headlesschrome",
      "phantomjs", "selenium", "puppeteer", "playwright", "scrapy",
      "mechanize">>

TIKTOK_WEBVIEW_PATTERNS ==
    <<"trill", "musical_ly", "BytedanceWebview", "JsSdk/1.0", "JsSdk/2.0">>

\* Variant: the referer table as it was before it was emptied
TIKTOK_DOMAINS_enabled == <<"tiktok.com", "musical.ly", "bytedance.com">>

TIKTOK_DOMAINS == <<>>

\* Variant: only the first crawler name is looked for
isTikTokBotUserAgent_bytespiderOnly(userAgent) ==
    includes(userAgent, TIKTOK_BOT_PATTERNS[1])

isTikTokBotUserAgent(userAgent) == someIncluded(TIKTOK_BOT_PATTERNS, userAgent)

\* Variant: the User-Agent is lower-cased before the case-sensitive markers
\* are looked for
isTikTokWebView_lowerCased(userAgent) ==
    someIncluded(TIKTOK_WEBVIEW_PATTERNS, toLowerCase(userAgent))

isTikTokWebView(userAgent) == someIncluded(TIKTOK_WEBVIEW_PATTERNS, userAgent)

\* Variant: the User-Agent is compared as written
isChatGPTBotUserAgent_asWritten(userAgent) ==
    someIncluded(CHATGPT_AI_BOT_PATTERNS, userAgent)

isChatGPTBotUserAgent(userAgent) ==
    someIncluded(CHATGPT_AI_BOT_PATTERNS, toLowerCase(userAgent))

isTikTokReferer(referer) == someIncluded(TIKTOK_DOMAINS, toLowerCase(referer))

\* Variant: receiver and argument of includes exchanged
isGenericBot_swapped(userAgent) ==
    \E k \in 1..Len(GENERIC_BOT_PATTERNS) :
        includes(GENERIC_BOT_PATTERNS[k], toLowerCase(userAgent))

isGenericBot(userAgent) ==
    someIncluded(GENERIC_BOT_PATTERNS, toLowerCase(userAgent))

\* The header view handed to the library: a function from the lower-case
\* header name to the value headers.get(name) returns (null when absent).
StdHeaders == {"accept-language", "accept-encoding", "accept", "connection"}

\* The optional third argument left out by the caller
NoHeaders == [omitted |-> TRUE]

\* Variant: three missing headers are needed
detectHeadlessBrowser_threeMissing(headers) ==
    LET missingCount == Cardinality({h \in StdHeaders : ~Truthy(headers[h])})
    IN  missingCount >= 3

detectHeadlessBrowser(headers) ==
    LET missingCount == Cardinality({h \in StdHeaders : ~Truthy(headers[h])})
    IN  missingCount >= 2

\* Variant: no tool is taken for obvious
obviousTools_none == <<>>

obviousTools == <<"curl", "wget", "python-requests", "scrapy">>

NoReason == "<none>"

\* Variant: the header view is read without testing that it was passed;
\* headers.get on undefined throws
detectBot_unguarded(userAgent, referer, headers) ==
    IF isTikTokWebView(userAgent)
    THEN [isBot |-> FALSE, reason |-> "TikTok WebView - legitimate human user",
          confidence |-> "high"]
    ELSE IF isTikTokBotUserAgent(userAgent)
    THEN [isBot |-> TRUE,
          reason |-> "TikTok bot user-agent detected (Bytespider or TikTokSpider)",
          confidence |-> "high"]
    ELSE IF isChatGPTBotUserAgent(userAgent)
    THEN [isBot |-> TRUE, reason |-> "ChatGPT/AI bot user-agent detected",
          confidence |-> "high"]
    ELSE IF isGenericBot(userAgent) /\ headers = NoHeaders
    THEN Thrown
    ELSE IF isGenericBot(userAgent) /\ detectHeadlessBrowser(headers)
    THEN [isBot |-> TRUE,
          reason |-> "Generic bot pattern with headless browser indicators",
          confidence |-> "medium"]
    ELSE IF isGenericBot(userAgent)
    THEN IF someIncluded(obviousTools, toLowerCase(userAgent))
         THEN [isBot |-> TRUE, reason |-> "Automated tool detected",
               confidence |-> "medium"]
         ELSE [isBot |-> TRUE, reason |-> "Generic bot pattern detected",
               confidence |-> "low"]
    ELSE [isBot |-> FALSE, reason |-> NoReason, confidence |-> "high"]

detectBot(userAgent, referer, headers) ==
    IF isTikTokWebView(userAgent)
    THEN [isBot |-> FALSE, reason |-> "TikTok WebView - legitimate human user",
          confidence |-> "high"]
    ELSE IF isTikTokBotUserAgent(userAgent)
    THEN [isBot |-> TRUE,
          reason |-> "TikTok bot user-agent detected (Bytespider or TikTokSpider)",
          confidence |-> "high"]
    ELSE IF isChatGPTBotUserAgent(userAgent)
    THEN [isBot |-> TRUE, reason |-> "ChatGPT/AI bot user-agent detected",
          confidence |-> "high"]
    ELSE IF headers # NoHeaders /\ isGenericBot(userAgent)
            /\ detectHeadlessBrowser(headers)
    THEN [isBot |-> TRUE,
          reason |-> "Generic bot pattern with headless browser indicators",
          confidence |-> "medium"]
    ELSE IF isGenericBot(userAgent)
    THEN IF someIncluded(obviousTools, toLowerCase(userAgent))
         THEN [isBot |-> TRUE, reason |-> "Automated tool detected",
               confidence |-> "medium"]
         ELSE [isBot |-> TRUE, reason |-> "Generic bot pattern detected",
               confidence |-> "low"]
    ELSE [isBot |-> FALSE, reason |-> NoReason, confidence |-> "high"]

\* Variant: the confidence is not looked at
isBotRequest_anyConfidence(userAgent, referer, headers) ==
    detectBot(userAgent, referer, headers).isBot

isBotRequest(userAgent, referer, headers) ==
    LET result == detectBot(userAgent, referer, headers)
    IN  result.isBot /\ (result.confidence = "high" \/ result.confidence = "medium")

-----------------------------------------------------------------------------
(* The WHATWG URL object as buildRedirectUrl uses it.  Paths and queries   *)
(* here are made of unreserved characters, '/', '?', '&' and '=', on which *)
(* percent-encoding and form-urlencoding are the identity; an inbound      *)
(* pathname is already normalised by the runtime (no '.' or '..' segment). *)

\* s.indexOf(c, from) for a one-character c, 1-based; 0 when absent
indexOf(s, c, from) ==
    LET hits == {i \in from..Len(s) : CharAt(s, i) = c}
    IN  IF hits = {} THEN 0 ELSE CHOOSE i \in hits : \A j \in hits : i <= j

startsWith(s, p) == Len(s) >= Len(p) /\ SubSeq(s, 1, Len(p)) = p

\* s.split(sep) for a one-character separator
RECURSIVE split(_, _)
split(s, sep) ==
    LET i == indexOf(s, sep, 1)
    IN  IF i = 0 THEN <<s>>
        ELSE <<SubSeq(s, 1, i - 1)>> \o split(SubSeq(s, i + 1, Len(s)), sep)

\* parts.join(sep)
RECURSIVE join(_, _)
join(parts, sep) ==
    IF parts = <<>> THEN ""
    ELSE IF Len(parts) = 1 THEN parts[1]
    ELSE parts[1] \o sep \o join(Tail(parts), sep)

\* parts.slice(n): the elements from 0-based index n on
slice(parts, n) == SubSeq(parts, n + 1, Len(parts))

\* Variant: the trailing slash is kept
replaceTrailingSlash_kept(s) == s

\* s.replace(/\/$/, '')
replaceTrailingSlash(s) ==
    IF Len(s) > 0 /\ CharAt(s, Len(s)) = "/" THEN SubSeq(s, 1, Len(s) - 1) ELSE s

\* The list of name/value pairs of a query string (URLSearchParams)
RECURSIVE pairsOf(_)
pairsOf(pieces) ==
    IF pieces = <<>> THEN <<>>
    ELSE LET piece == Head(pieces)
             eq == indexOf(piece, "=", 1)
             pair == IF eq = 0 THEN <<piece, "">>
                     ELSE <<SubSeq(piece, 1, eq - 1), SubSeq(piece, eq + 1, Len(piece))>>
         IN  IF piece = "" THEN pairsOf(Tail(pieces))
             ELSE <<pair>> \o pairsOf(Tail(pieces))

parseQuery(search) == IF search = "" THEN <<>> ELSE pairsOf(split(search, "&"))

RECURSIVE serializeQuery(_)
serializeQuery(pairs) ==
    IF pairs = <<>> THEN ""
    ELSE LET first == pairs[1][1] \o "=" \o pairs[1][2]
         IN  IF Len(pairs) = 1 THEN first
             ELSE first \o "&" \o serializeQuery(Tail(pairs))

\* new URL(s): ok = FALSE stands for the TypeError thrown on a string that
\* is not an absolute http(s) URL
parseURL(s) ==
    LET scheme == IF startsWith(s, "https://") THEN "https://"
                  ELSE IF startsWith(s, "http://") THEN "http://" ELSE ""
        rest == SubSeq(s, Len(scheme) + 1, Len(s))
        q == indexOf(rest, "?", 1)
        beforeQuery == IF q = 0 THEN rest ELSE SubSeq(rest, 1, q - 1)
        search == IF q = 0 THEN "" ELSE SubSeq(rest, q + 1, Len(rest))
        sl == indexOf(beforeQuery, "/", 1)
        host == IF sl = 0 THEN beforeQuery ELSE SubSeq(beforeQuery, 1, sl - 1)
        path == IF sl = 0 THEN "/" ELSE SubSeq(beforeQuery, sl, Len(beforeQuery))
    IN  IF scheme = "" \/ host = "" \/ includes(s, " ")
        THEN [ok |-> FALSE, origin |-> "", pathname |-> "", search |-> ""]
        ELSE [ok |-> TRUE, origin |-> scheme \o host, pathname |-> path,
              search |-> search]

\* url.toString()
href(url) ==
    url.origin \o url.pathname \o (IF url.search = "" THEN "" ELSE "?" \o url.search)

\* url.pathname = p
setPathname(url, p) ==
    [url EXCEPT !.pathname = IF startsWith(p, "/") THEN p ELSE "/" \o p]

\* Variant: searchParams.set, which overwrites entries of the same name
searchParamsAppend_set(url, pair) ==
    LET old == parseQuery(url.search)
        first == CHOOSE i \in 1..(Len(old) + 1) :
                    /\ (i <= Len(old) => old[i][1] = pair[1])
                    /\ \A j \in 1..(i - 1) : old[j][1] # pair[1]
        kept == SelectSeq([i \in 1..Len(old) |-> IF i = first THEN pair ELSE old[i]],
                          LAMBDA e : e = pair \/ e[1] # pair[1])
    IN  [url EXCEPT !.search =
            serializeQuery(IF first > Len(old) THEN Append(old, pair) ELSE kept)]

\* url.searchParams.append(key, value)
searchParamsAppend(url, pair) ==
    [url EXCEPT !.search = serializeQuery(Append(parseQuery(url.search), pair))]

\* request.nextUrl.searchParams.forEach((value, key) => url.searchParams.append(key, value))
RECURSIVE appendAll(_, _)
appendAll(url, pairs) ==
    IF pairs = <<>> THEN url
    ELSE appendAll(searchParamsAppend(url, Head(pairs)), Tail(pairs))

-----------------------------------------------------------------------------
(* middleware.ts: buildRedirectUrl (the proxy variant carries a verbatim   *)
(* copy of it)                                                             *)

\* nextUrl is the request's parsed URL: [pathname, search]
buildRedirectUrl(baseUrl, nextUrl) ==
    LET url == parseURL(baseUrl)
        pathParts == split(nextUrl.pathname, "/")
        additionalPath == join(slice(pathParts, 3), "/")
        withPath == IF additionalPath # ""
                    THEN setPathname(url, replaceTrailingSlash(url.pathname)
                                          \o "/" \o additionalPath)
                    ELSE url
        withQuery == appendAll(withPath, parseQuery(nextUrl.search))
    IN  IF url.ok THEN href(withQuery) ELSE baseUrl

-----------------------------------------------------------------------------
(* The classifiers of the three middleware variants.  request.headers is a *)
(* function from the lower-case header name to its value, null if absent.  *)

headersGet(request, name) == request.headers[name]

headersHas(request, name) == request.headers[name] # null

\* request.headers.get(name)?.toLowerCase() || ''
lowerOrEmpty(request, name) ==
    IF headersGet(request, name) = null THEN ""
    ELSE toLowerCase(headersGet(request, name))

tikTokBotPatterns ==
    <<"tiktok", "bytespider", "bytedance", "musically", "musical_ly", "trill">>

genericBotIndicators ==
    <<"bot", "crawler", "spider", "scraper", "curl", "wget", "python-requests",
      "java/", "go-http-client", "headlesschrome", "phantomjs", "selenium",
      "puppeteer">>

refererIsTikTok(referer) ==
    \/ includes(referer, "tiktok.com")
    \/ includes(referer, "musical.ly")
    \/ includes(referer, "bytedance.com")

\* middleware.ts (redirect variant)
detectTikTokBot(request) ==
    LET userAgent == lowerOrEmpty(request, "user-agent")
        referer == lowerOrEmpty(request, "referer")
        isTikTokUserAgent == someIncluded(tikTokBotPatterns, userAgent)
        hasGenericBotPattern == someIncluded(genericBotIndicators, userAgent)
        hasAcceptLanguage == headersHas(request, "accept-language")
        hasAcceptEncoding == headersHas(request, "accept-encoding")
        hasAccept == headersHas(request, "accept")
        suspiciousHeaders == ~hasAcceptLanguage /\ ~hasAcceptEncoding
    IN  IF isTikTokUserAgent \/ refererIsTikTok(referer) THEN TRUE
        ELSE IF hasGenericBotPattern /\ suspiciousHeaders THEN TRUE
        ELSE IF hasGenericBotPattern /\ ~hasAccept THEN TRUE
        ELSE FALSE

\* SSR reverse-proxy variant: its own copies of the two pattern tables
SSR_TIKTOK_WEBVIEW_PATTERNS ==
    <<"trill", "musical_ly", "BytedanceWebview", "JsSdk/1.0", "JsSdk/2.0">>

SSR_TIKTOK_BOT_PATTERNS == <<"Bytespider", "TikTokSpider">>

detectTikTokBot_ssr(request) ==
    LET userAgent == OrElse(headersGet(request, "user-agent"), "")
    IN  IF someIncluded(SSR_TIKTOK_WEBVIEW_PATTERNS, userAgent) THEN FALSE
        ELSE IF someIncluded(SSR_TIKTOK_BOT_PATTERNS, userAgent) THEN TRUE
        ELSE FALSE

\* reverse-proxy variant with redirect fallback
chatGPTAIBotPatterns ==
    <<"chatgpt-user", "gptbot", "openai", "claude-web", "anthropic-ai",
      "anthropic", "perplexitybot", "perplexity", "coherebot", "cohere",
      "bingbot", "google-extended", "omgilibot", "omgili",
      "facebookexternalhit", "meta-externalagent">>

detectBot_proxy(request) ==
    LET userAgent == lowerOrEmpty(request, "user-agent")
        referer == lowerOrEmpty(request, "referer")
        isTikTokUserAgent == someIncluded(tikTokBotPatterns, userAgent)
        isChatGPTAIUserAgent == someIncluded(chatGPTAIBotPatterns, userAgent)
        hasGenericBotPattern == someIncluded(genericBotIndicators, userAgent)
        hasAcceptLanguage == headersHas(request, "accept-language")
        hasAcceptEncoding == headersHas(request, "accept-encoding")
        hasAccept == headersHas(request, "accept")
        suspiciousHeaders == ~hasAcceptLanguage /\ ~hasAcceptEncoding
    IN  IF isTikTokUserAgent \/ refererIsTikTok(referer) THEN TRUE
        ELSE IF isChatGPTAIUserAgent THEN TRUE
        ELSE IF hasGenericBotPattern /\ suspiciousHeaders THEN TRUE
        ELSE IF hasGenericBotPattern /\ ~hasAccept THEN TRUE
        ELSE FALSE

\* The classifier the deployed variant runs
classify(v, request) ==
    CASE v = "redirect" -> detectTikTokBot(request)
      [] v = "ssr"      -> detectTikTokBot_ssr(request)
      [] v = "proxy"    -> detectBot_proxy(request)

-----------------------------------------------------------------------------
(* Inputs of the classifier                                                *)

\* Pieces a User-Agent is assembled from: neutral browser text, the five
\* webview markers' carriers, the two named crawlers in and out of their
\* documented casing, AI crawlers, an obvious tool and a non-obvious
\* automation library.
Fragments ==
    <<"Mozilla/5.0", "trill_200005", "JsSdk/1.0", "musical_ly_21.7.0",
      "BytedanceWebview/d8a21c6", "Bytespider", "TikTokSpider", "bytespider",
      "GPTBot/1.0", "curl/8.4.0", "HeadlessChrome", "Trill", "anthropic-ai">>

\* Largest number of fragments in one User-Agent
MaxFrags == 2

RECURSIVE JoinFrags(_, _)
JoinFrags(S, from) ==
    IF from > Len(Fragments) THEN ""
    ELSE IF from \in S
         THEN LET rest == JoinFrags(S, from + 1)
              IN  IF rest = "" THEN Fragments[from]
                  ELSE Fragments[from] \o " " \o rest
         ELSE JoinFrags(S, from + 1)

UserAgents ==
    {JoinFrags(S, 1) : S \in {T \in SUBSET (1..Len(Fragments)) : Cardinality(T) <= MaxFrags}}

Referers == {"", "https://www.tiktok.com/@user/video/123", "https://m.Musical.ly/v/1"}

\* Header views: every presence pattern of the four standard headers, and
\* views in which a header is sent with an empty value.
PresenceViews == [StdHeaders -> {null, "x"}]

EmptyValueViews ==
    {[h \in StdHeaders |-> ""],
     [h \in StdHeaders |-> IF h = "accept" THEN "" ELSE "x"]}

HeaderViews == PresenceViews \cup EmptyValueViews \cup {NoHeaders}

LibInputs ==
    [userAgent : UserAgents, referer : Referers, headers : HeaderViews]

-----------------------------------------------------------------------------------------------------------------------------------------------------
(* Calls into the library                                                  *)

NoCall == [none |-> TRUE]
NoRequest == [none |-> TRUE]
NoResponse == [none |-> TRUE]

MwIdle ==
    /\ variant = "none"
    /\ env = [REAL_URL |-> undefined, BOT_URL |-> undefined]
    /\ inbound = NoRequest
    /\ pc = "idle"
    /\ isBot = FALSE
    /\ targetUrl = undefined
    /\ outbound = <<>>
    /\ fetched = NoResponse
    /\ response = NoResponse
    /\ parked = <<>>

UrlIdle ==
    /\ urlArgs = NoCall
    /\ urlResult = <<>>

LibIdle ==
    /\ libArgs = NoCall
    /\ libResult = <<>>
    /\ libBool = <<>>

ApiIdle ==
    /\ apiEnv = NoCall
    /\ kvStore = <<>>
    /\ apiReq = NoRequest
    /\ apiRes = NoResponse
    /\ clock = 0
    /\ generated = 0
    /\ returned = {}
    /\ kvSettled = "none"

InitLib ==
    /\ libArgs \in LibInputs
    /\ libResult = <<>>
    /\ libBool = <<>>
    /\ UrlIdle
    /\ MwIdle
    /\ ApiIdle

CallDetectBot ==
    /\ libArgs # NoCall
    /\ libResult = <<>>
    /\ libResult' = <<detectBot(libArgs.userAgent, libArgs.referer, libArgs.headers)>>
    /\ UNCHANGED <<libArgs, libBool, urlVars, mwVars, apiVars>>

CallIsBotRequest ==
    /\ libArgs # NoCall
    /\ libResult # <<>>
    /\ libBool = <<>>
    /\ libBool' = <<isBotRequest(libArgs.userAgent, libArgs.referer, libArgs.headers)>>
    /\ UNCHANGED <<libArgs, libResult, urlVars, mwVars, apiVars>>

NextLib == CallDetectBot \/ CallIsBotRequest

SpecLib == InitLib /\ [][NextLib]_vars

-----------------------------------------------------------------------------
(* Calls of buildRedirectUrl                                               *)

BaseUrls ==
    {"https://real.example", "https://real.example/", "https://real.example/base",
     "https://real.example/base/", "https://real.example/base?x=0",
     "https://your-site.com", "not a url", ""}

\* Routing prefixes an inbound path starts with: none, the /p/{id} prefix
\* of the per-identifier deployment, and ordinary site paths
PathPrefixes == <<"", "/p", "/p/abc123", "/products">>

\* Segments that follow the prefix ("" gives an empty segment, as in a
\* trailing or doubled slash)
ExtraSegments == <<"extra", "seg", "">>

\* Largest number of segments after the prefix
MaxExtra == 2

\* Largest number of inbound query parameters
MaxParams == 2

QueryPairs == <<"x=1", "x=2", "id=5">>

SeqsUpTo(n, k) == UNION {[1..m -> 1..n] : m \in 0..k}

Pathnames ==
    {LET p == PathPrefixes[i] \o join([k \in 1..Len(e) |-> "/" \o ExtraSegments[e[k]]], "")
     IN  IF p = "" THEN "/" ELSE p :
        i \in 1..Len(PathPrefixes), e \in SeqsUpTo(Len(ExtraSegments), MaxExtra)}

Searches ==
    {join([k \in 1..Len(e) |-> QueryPairs[e[k]]], "&") :
        e \in SeqsUpTo(Len(QueryPairs), MaxParams)}

NextUrls == [pathname : Pathnames, search : Searches]

UrlInputs == [baseUrl : BaseUrls, nextUrl : NextUrls]

InitUrl ==
    /\ urlArgs \in UrlInputs
    /\ urlResult = <<>>
    /\ LibIdle
    /\ MwIdle
    /\ ApiIdle

CallBuildRedirectUrl ==
    /\ urlArgs # NoCall
    /\ urlResult = <<>>
    /\ urlResult' = <<buildRedirectUrl(urlArgs.baseUrl, urlArgs.nextUrl)>>
    /\ UNCHANGED <<urlArgs, libVars, mwVars, apiVars>>

NextUrl == CallBuildRedirectUrl

SpecUrl == InitUrl /\ [][NextUrl]_vars

-----------------------------------------------------------------------------
(* The middleware variants                                                 *)

Variants == {"redirect", "ssr", "proxy"}

\* Hard-coded fallbacks of the SSR variant
SSR_DEFAULT_REAL_URL == "https://ecoshopin.store/products/propolis-%D8%A7%D9%84%D8%A3%D8%B5%D9%84%D9%8A-%D8%A3%D9%82%D9%88%D9%89-%D9%85%D9%83%D9%85%D9%84-%D8%B7%D8%A8%D9%8A%D8%B9%D9%8A-%D9%83%D9%8A%D8%AD%D9%85%D9%8A-%D9%85%D9%86%D8%A7%D8%B9%D8%AA%D9%83-%D9%88%D9%8A%D8%B9%D8%B7%D9%8A%D9%83-%D9%85%D9%86-%D8%A7%D9%84%D9%82%D9%88%D9%85%D9%86-%D8%A7%D9%84%D8%AF%D8%A7%D8%AE%D9%84-%F0%9F%90%9D%E2%9C%A8"
SSR_DEFAULT_BOT_URL == "https://storelhata.com/pages/miroir"

\* The module-level constants REAL_URL and BOT_URL of the deployed variant
REAL_URL ==
    IF variant = "ssr" THEN OrElse(env.REAL_URL, SSR_DEFAULT_REAL_URL)
    ELSE env.REAL_URL

BOT_URL ==
    IF variant = "ssr" THEN OrElse(env.BOT_URL, SSR_DEFAULT_BOT_URL)
    ELSE env.BOT_URL

\* const targetUrl = isBot ? BOT_URL : REAL_URL, in each variant
\* Variant: the branches of the conditional exchanged
selectTargetUrl_swapped(bot) == IF bot THEN REAL_URL ELSE BOT_URL

selectTargetUrl(bot) == IF bot THEN BOT_URL ELSE REAL_URL

selectTargetUrl_ssr(bot) == IF bot THEN BOT_URL ELSE REAL_URL

selectTargetUrl_proxy(bot) == IF bot THEN BOT_URL ELSE REAL_URL

\* headers.set(name, value) on a Headers object (names are case-insensitive
\* and kept in lower case)
\* Variant: a value already set is kept
headersSet_keep(headers, name, value) == headers @@ (name :> value)

headersSet(headers, name, value) == (name :> value) @@ headers

EmptyHeaders == [n \in {} |-> ""]

\* the headers object of the redirects
\* Variant: Cache-Control alone
NoCacheHeaders_cacheControlOnly ==
    headersSet(EmptyHeaders, "cache-control", "no-cache, no-store, must-revalidate")

NoCacheHeaders ==
    headersSet(headersSet(headersSet(EmptyHeaders,
        "cache-control", "no-cache, no-store, must-revalidate"),
        "pragma", "no-cache"),
        "expires", "0")

\* Statuses a Response may not carry a body with
NullBodyStatuses == {101, 103, 204, 205, 304}

\* new NextResponse(body, {status, headers}) for a string body: a null-body
\* status makes the constructor throw (the empty string is a body too), and
\* a response built without Content-Type gets the one of a string body
NewNextResponse(body, status, headers) ==
    IF status \in NullBodyStatuses THEN Thrown
    ELSE [status |-> status, body |-> body,
          headers |-> IF "content-type" \in DOMAIN headers THEN headers
                      ELSE headersSet(headers, "content-type", "text/plain;charset=UTF-8")]

\* try { ... } catch (error) { return handler }: the value of the block, or
\* the handler's when the block threw
\* Variant: no handler, the exception leaves the function
catchWith_rethrow(result, handler) == result

catchWith(result, handler) == IF result = Thrown THEN handler ELSE result

\* NextResponse.redirect(url, {status, headers}): the Location is the
\* serialisation of new URL(url); a string that is not an absolute URL
\* makes the call throw
NextResponse_redirect(url, status, headers) ==
    IF parseURL(url).ok
    THEN [status |-> status, body |-> "",
          headers |-> headersSet(headers, "location", href(parseURL(url)))]
    ELSE Thrown

\* the "Proxy Not Configured" page of the redirect and proxy variants
NotConfiguredResponse ==
    [status |-> 500, body |-> "<title>Proxy Not Configured</title>",
     headers |-> headersSet(headersSet(EmptyHeaders,
                    "content-type", "text/html; charset=utf-8"),
                    "cache-control", "no-cache, no-store, must-revalidate")]

\* the outermost catch of the redirect and proxy variants
ProxyServiceErrorResponse ==
    NewNextResponse("Proxy service error", 500,
                    headersSet(EmptyHeaders, "cache-control", "no-cache"))

\* the outermost catch of the SSR variant
ServiceErrorResponse ==
    NewNextResponse("Service Error", 500,
                    headersSet(EmptyHeaders, "cache-control", "no-cache"))

\* the "Service Temporarily Unavailable" page of the SSR variant
UnavailableResponse ==
    [status |-> 503, body |-> "<title>Service Temporarily Unavailable</title>",
     headers |-> headersSet(headersSet(headersSet(EmptyHeaders,
                    "content-type", "text/html; charset=utf-8"),
                    "cache-control", "no-cache, no-store, must-revalidate"),
                    "retry-after", "60")]

\* if (!REAL_URL || !BOT_URL)
\* Variant: the page is returned only when both are missing
notConfigured_both(real, bot) == ~Truthy(real) /\ ~Truthy(bot)

notConfigured(real, bot) == ~Truthy(real) \/ ~Truthy(bot)

\* middleware.ts: the whole handler of the redirect variant
middleware(r) ==
    /\ variant = "redirect"
    /\ pc = "idle"
    /\ inbound' = r
    /\ pc' = "done"
    /\ outbound' = outbound
    /\ fetched' = fetched
    /\ IF notConfigured(REAL_URL, BOT_URL)
       THEN /\ response' = NotConfiguredResponse
            /\ UNCHANGED <<isBot, targetUrl>>
       ELSE LET bot == detectTikTokBot(r)
                target == selectTargetUrl(bot)
                redirectUrl == buildRedirectUrl(target, r.nextUrl)
                redirected == NextResponse_redirect(redirectUrl, 302, NoCacheHeaders)
            IN  /\ isBot' = bot
                /\ targetUrl' = target
                /\ response' = catchWith(redirected, ProxyServiceErrorResponse)
    /\ UNCHANGED <<variant, env, libVars, urlVars, apiVars, parked>>

\* await request.text() in the fetch init throws: the body of a request
\* with a method other than GET and HEAD cannot be read
\* Variant: the body is read whatever the method
bodyReadThrows_anyMethod(r) == r.body = Unreadable

bodyReadThrows(r) == r.method # "GET" /\ r.method # "HEAD" /\ r.body = Unreadable

\* The init object of the outbound fetch: the four forwarded headers with
\* the variant's defaults, the method and the body of a non-GET/HEAD request
\* Variant: every inbound header is forwarded
fetchInit_allHeaders(r, defaults, redirectMode) ==
    [method |-> r.method,
     headers |-> [n \in {h \in DOMAIN r.headers : r.headers[h] # null} \cup DOMAIN defaults |->
                    OrElse(headersGet(r, n), IF n \in DOMAIN defaults THEN defaults[n] ELSE "")],
     body |-> IF r.method # "GET" /\ r.method # "HEAD" THEN r.body ELSE undefined,
     redirect |-> redirectMode]

fetchInit(r, defaults, redirectMode) ==
    [method |-> r.method,
     headers |-> [n \in DOMAIN defaults |-> OrElse(headersGet(r, n), defaults[n])],
     body |-> IF r.method # "GET" /\ r.method # "HEAD" THEN r.body ELSE undefined,
     redirect |-> redirectMode]

SsrDefaults ==
    [n \in {"user-agent", "accept", "accept-language", "accept-encoding"} |->
        CASE n = "user-agent" -> "Mozilla/5.0 (compatible; VercelProxy/1.0)"
          [] n = "accept" -> "text/html,application/xhtml+xml,application/xml;q=0.9,*/*;q=0.8"
          [] n = "accept-language" -> "en-US,en;q=0.9"
          [] n = "accept-encoding" -> "gzip, deflate, br"]

ProxyDefaults ==
    [n \in {"user-agent", "accept", "accept-language", "accept-encoding"} |->
        CASE n = "user-agent" -> "Mozilla/5.0"
          [] n = "accept" -> "*/*"
          [] n = "accept-language" -> "en-US,en;q=0.9"
          [] n = "accept-encoding" -> "gzip, deflate, br"]

\* SSR variant, up to the await of fetch(targetUrl, ...).  The init object
\* is evaluated first (a body that cannot be read throws before fetch is
\* called); fetch rejects at once on a string that is not an absolute URL.
middleware_ssr(r) ==
    /\ variant = "ssr"
    /\ pc = "idle"
    /\ inbound' = r
    /\ LET bot == detectTikTokBot_ssr(r)
           target == selectTargetUrl_ssr(bot)
       IN  /\ isBot' = bot
           /\ targetUrl' = target
           /\ IF bodyReadThrows(r)
              THEN /\ outbound' = outbound
                   /\ fetched' = fetched
                   /\ pc' = "done"
                   /\ response' = catchWith(catchWith(Thrown, UnavailableResponse),
                                            ServiceErrorResponse)
              ELSE /\ outbound' = Append(outbound,
                                    [url |-> target] @@ fetchInit(r, SsrDefaults, "follow"))
                   /\ IF parseURL(target).ok
                      THEN /\ pc' = "fetching"
                           /\ fetched' = fetched
                           /\ response' = response
                      ELSE /\ pc' = "done"
                           /\ fetched' = Thrown
                           /\ response' = catchWith(catchWith(Thrown, UnavailableResponse),
                                                    ServiceErrorResponse)
    /\ UNCHANGED <<variant, env, libVars, urlVars, apiVars, parked>>

\* headersToForward.forEach(header => { const value = upstream.headers.get(header);
\*                                      if (value) responseHeaders.set(header, value) })
forwardHeaders(upstream, headersToForward) ==
    [n \in {h \in headersToForward : Truthy(upstream.headers[h])} |-> upstream.headers[n]]

SsrHeadersToForward ==
    {"content-type", "content-language", "content-security-policy",
     "x-frame-options", "x-content-type-options"}

ProxyHeadersToForward ==
    {"content-type", "content-language", "cache-control", "expires",
     "last-modified", "etag"}

\* const body = await upstream.text(); ...; return new NextResponse(body, {status, headers})
relay(upstream, headers) ==
    IF upstream.body = Unreadable THEN Thrown
    ELSE NewNextResponse(upstream.body, upstream.status, headers)

\* SSR variant: the awaited fetch resolves with the upstream response
fetchResolved_ssr(upstream) ==
    /\ variant = "ssr"
    /\ pc = "fetching"
    /\ pc' = "done"
    /\ fetched' = upstream
    /\ LET copied == forwardHeaders(upstream, SsrHeadersToForward)
           cache == headersSet(headersSet(headersSet(copied,
                        "cache-control", "no-cache, no-store, must-revalidate, proxy-revalidate"),
                        "pragma", "no-cache"),
                        "expires", "0")
           debug == headersSet(headersSet(headersSet(cache,
                        "x-bot-detection", IF isBot THEN "bot" ELSE "human"),
                        "x-proxy-target", IF isBot THEN "fake-url" ELSE "real-url"),
                        "x-render-mode", "server-side")
       IN  response' = catchWith(catchWith(relay(upstream, debug), UnavailableResponse),
                                 ServiceErrorResponse)
    /\ UNCHANGED <<variant, env, inbound, isBot, targetUrl, outbound, libVars, urlVars, apiVars, parked>>

\* SSR variant: the awaited fetch rejects
fetchRejected_ssr ==
    /\ variant = "ssr"
    /\ pc = "fetching"
    /\ pc' = "done"
    /\ fetched' = Thrown
    /\ response' = catchWith(catchWith(Thrown, UnavailableResponse), ServiceErrorResponse)
    /\ UNCHANGED <<variant, env, inbound, isBot, targetUrl, outbound, libVars, urlVars, apiVars, parked>>

\* catch (fetchError) of the proxy variant: a redirect to the URL that was
\* being fetched
\* Variant: the fallback always points at REAL_URL
fallbackRedirect_real(proxyUrl) == NextResponse_redirect(REAL_URL, 302, NoCacheHeaders)

fallbackRedirect(proxyUrl) == NextResponse_redirect(proxyUrl, 302, NoCacheHeaders)

\* proxy variant, up to the await of fetch(proxyUrl, ...)
middleware_proxy(r) ==
    /\ variant = "proxy"
    /\ pc = "idle"
    /\ inbound' = r
    /\ IF notConfigured(REAL_URL, BOT_URL)
       THEN /\ response' = NotConfiguredResponse
            /\ pc' = "done"
            /\ UNCHANGED <<isBot, targetUrl, outbound, fetched>>
       ELSE LET bot == detectBot_proxy(r)
                target == selectTargetUrl_proxy(bot)
                proxyUrl == buildRedirectUrl(target, r.nextUrl)
            IN  /\ isBot' = bot
                /\ targetUrl' = target
                /\ IF bodyReadThrows(r)
                   THEN /\ outbound' = outbound
                        /\ fetched' = fetched
                        /\ pc' = "done"
                        /\ response' = catchWith(catchWith(Thrown, fallbackRedirect(proxyUrl)),
                                                 ProxyServiceErrorResponse)
                   ELSE /\ outbound' = Append(outbound,
                                         [url |-> proxyUrl] @@ fetchInit(r, ProxyDefaults, "manual"))
                        /\ IF parseURL(proxyUrl).ok
                           THEN /\ pc' = "fetching"
                                /\ fetched' = fetched
                                /\ response' = response
                           ELSE /\ pc' = "done"
                                /\ fetched' = Thrown
                                /\ response' = catchWith(catchWith(Thrown, fallbackRedirect(proxyUrl)),
                                                         ProxyServiceErrorResponse)
    /\ UNCHANGED <<variant, env, libVars, urlVars, apiVars, parked>>

\* proxy variant: the awaited fetch resolves with the upstream response
fetchResolved_proxy(upstream) ==
    /\ variant = "proxy"
    /\ pc = "fetching"
    /\ pc' = "done"
    /\ fetched' = upstream
    /\ LET proxyUrl == outbound[Len(outbound)].url
           copied == forwardHeaders(upstream, ProxyHeadersToForward)
           cache == headersSet(headersSet(headersSet(copied,
                        "cache-control", "no-cache, no-store, must-revalidate"),
                        "pragma", "no-cache"),
                        "expires", "0")
           debug == headersSet(cache, "x-proxy-mode", IF isBot THEN "bot" ELSE "user")
       IN  response' = catchWith(catchWith(relay(upstream, debug), fallbackRedirect(proxyUrl)),
                                 ProxyServiceErrorResponse)
    /\ UNCHANGED <<variant, env, inbound, isBot, targetUrl, outbound, libVars, urlVars, apiVars, parked>>

\* proxy variant: the awaited fetch rejects
fetchRejected_proxy ==
    /\ variant = "proxy"
    /\ pc = "fetching"
    /\ pc' = "done"
    /\ fetched' = Thrown
    /\ LET proxyUrl == outbound[Len(outbound)].url
       IN  response' = catchWith(catchWith(Thrown, fallbackRedirect(proxyUrl)),
                                 ProxyServiceErrorResponse)
    /\ UNCHANGED <<variant, env, inbound, isBot, targetUrl, outbound, libVars, urlVars, apiVars, parked>>

-----------------------------------------------------------------------------
(* Deployments, inbound requests and upstream responses                    *)

\* process.env of a deployment: both destinations set (distinct sites, with
\* and without a path, trailing slash and query), one of them set to a
\* value that is not an absolute URL (the scheme left out), or one or both
\* missing
EnvConfigs ==
    {[REAL_URL |-> "https://real.example/base", BOT_URL |-> "https://decoy.example/landing"],
     [REAL_URL |-> "https://your-site.com", BOT_URL |-> "https://decoy-site.com/?src=b"],
     [REAL_URL |-> "real.example/base", BOT_URL |-> "https://decoy.example/landing"],
     [REAL_URL |-> "https://real.example/base", BOT_URL |-> "decoy.example/landing"],
     [REAL_URL |-> undefined, BOT_URL |-> "https://decoy.example/landing"],
     [REAL_URL |-> "https://real.example/base", BOT_URL |-> undefined],
     [REAL_URL |-> "", BOT_URL |-> ""],
     [REAL_URL |-> undefined, BOT_URL |-> undefined]}

RequestHeaderNames ==
    {"user-agent", "referer", "accept", "accept-language", "accept-encoding"}

BrowserUA == "Mozilla/5.0 (Windows NT 10.0; Win64; x64) Chrome/120.0.0.0 Safari/537.36"
BytespiderUA == "Mozilla/5.0 (compatible; Bytespider; spider-feedback@bytedance.com)"
TrillWebViewUA == "Mozilla/5.0 (Linux; Android 8.1.0) Mobile Safari/537.36 trill_200005 JsSdk/1.0 NetType/WIFI"
MusicallyWebViewUA == "Mozilla/5.0 (iPhone) Mobile/15E148 musical_ly_21.7.0 JsSdk/2.0 NetType/4G"

\* User-Agent header values of inbound requests (null: no such header)
MwUserAgents ==
    {null, "", BrowserUA, BytespiderUA, TrillWebViewUA, MusicallyWebViewUA,
     "Mozilla/5.0 (compatible; TikTokSpider; ttspider-feedback@tiktok.com)",
     "Mozilla/5.0 (Linux) Mobile Safari/537.36 BytedanceWebview/d8a21c6",
     "Mozilla/5.0 (Linux) Mobile Safari/537.36 JsSdk/2.0",
     "Mozilla/5.0 (compatible; GPTBot/1.0; +https://openai.com/gptbot)",
     "curl/8.4.0", "Mozilla/5.0 HeadlessChrome/120.0", "bytespider"}

MwReferers == {null, "https://www.tiktok.com/@user/video/123"}

mkRequest(method, pathname, search, ua, referer, accept, lang, enc, body) ==
    [method |-> method,
     nextUrl |-> [pathname |-> pathname, search |-> search],
     headers |-> [n \in RequestHeaderNames |->
                    CASE n = "user-agent" -> ua
                      [] n = "referer" -> referer
                      [] n = "accept" -> accept
                      [] n = "accept-language" -> lang
                      [] n = "accept-encoding" -> enc],
     body |-> body]

\* Requests that vary what the classifiers read, on one URL
ClassifierRequests ==
    {mkRequest("GET", "/p/abc123/extra/seg", "x=1", ua, ref, a, l, e, "") :
        ua \in MwUserAgents, ref \in MwReferers,
        a \in {null, "text/html"}, l \in {null, "en-US"}, e \in {null, "gzip"}}

MwPathnames ==
    {"/", "/p/abc123", "/p/abc123/extra/seg", "/p/abc123/", "/products",
     "/products/item-5", "/a/b/c/d"}

MwSearches == {"", "id=5", "x=1&x=2"}

\* Requests that vary what the dispatcher reads, from three clients
DispatchRequests ==
    {mkRequest(m, p, q, ua, null, "text/html", "en-US", "gzip", IF m = "POST" THEN "payload" ELSE "") :
        m \in {"GET", "POST"}, p \in MwPathnames, q \in MwSearches,
        ua \in {BrowserUA, BytespiderUA, TrillWebViewUA}}

\* Requests whose body stream fails while it is read
UnreadableRequests ==
    {mkRequest(m, "/p/abc123/extra/seg", "x=1", ua, null, "text/html", "en-US", "gzip", Unreadable) :
        m \in {"GET", "POST"}, ua \in {BrowserUA, BytespiderUA}}

Requests == ClassifierRequests \cup DispatchRequests \cup UnreadableRequests

UpstreamHeaderNames == SsrHeadersToForward \cup ProxyHeadersToForward

mkUpstream(status, body, given) ==
    [status |-> status, body |-> body,
     headers |-> [n \in UpstreamHeaderNames |->
                    IF n \in DOMAIN given THEN given[n] ELSE null]]

Upstreams ==
    {mkUpstream(200, "hello", ("content-type" :> "text/plain")),
     mkUpstream(404, "<h1>Not Found</h1>",
                ("content-type" :> "text/html") @@ ("cache-control" :> "public, max-age=3600")
                @@ ("expires" :> "Thu, 01 Jan 2099 00:00:00 GMT") @@ ("etag" :> "abc")
                @@ ("x-frame-options" :> "DENY")),
     mkUpstream(500, "oops", EmptyHeaders),
     mkUpstream(204, "", EmptyHeaders),
     mkUpstream(304, "", ("etag" :> "abc")),
     mkUpstream(200, Unreadable, ("content-type" :> "text/html"))}

Init ==
    /\ variant \in Variants
    /\ env \in EnvConfigs
    /\ inbound = NoRequest
    /\ pc = "idle"
    /\ isBot = FALSE
    /\ targetUrl = undefined
    /\ outbound = <<>>
    /\ fetched = NoResponse
    /\ response = NoResponse
    /\ parked = <<>>
    /\ LibIdle
    /\ UrlIdle
    /\ ApiIdle

Next ==
    \/ \E r \in Requests : middleware(r)
    \/ \E r \in Requests : middleware_ssr(r)
    \/ \E upstream \in Upstreams : fetchResolved_ssr(upstream)
    \/ fetchRejected_ssr
    \/ \E r \in Requests : middleware_proxy(r)
    \/ \E upstream \in Upstreams : fetchResolved_proxy(upstream)
    \/ fetchRejected_proxy

Spec == Init /\ [][Next]_vars

-----------------------------------------------------------------------------
(* Concurrent requests: invocations of the handler interleave at the       *)
(* await of their fetch                                                    *)

\* Invocations that may be suspended at their await at once
MaxParked == 1

\* The request and the consts of the invocation that is awaiting its fetch
locals ==
    [inbound |-> inbound, isBot |-> isBot, targetUrl |-> targetUrl, outbound |-> outbound]

\* isBot / isTikTokBot read after the await: the const of the invocation
\* Variant: a module-level variable, holding what the last invocation wrote
resumedVerdict_moduleLevel(f) == isBot

resumedVerdict(f) == f.isBot

\* await fetch(...): the invocation is suspended and the runtime may start
\* or resume another one
awaitFetch ==
    /\ pc = "fetching"
    /\ Len(parked) < MaxParked
    /\ parked' = Append(parked, locals)
    /\ inbound' = NoRequest
    /\ pc' = "idle"
    /\ outbound' = <<>>
    /\ UNCHANGED <<variant, env, isBot, targetUrl, fetched, response, libVars, urlVars, apiVars>>

\* a suspended invocation is run again, its fetch about to settle
resumeFetch(i) ==
    /\ pc = "idle"
    /\ inbound = NoRequest
    /\ i \in 1..Len(parked)
    /\ parked' = SubSeq(parked, 1, i - 1) \o SubSeq(parked, i + 1, Len(parked))
    /\ inbound' = parked[i].inbound
    /\ isBot' = resumedVerdict(parked[i])
    /\ targetUrl' = parked[i].targetUrl
    /\ outbound' = parked[i].outbound
    /\ pc' = "fetching"
    /\ UNCHANGED <<variant, env, fetched, response, libVars, urlVars, apiVars>>

\* return response: the invocation ends
returnResponse ==
    /\ pc = "done"
    /\ inbound' = NoRequest
    /\ pc' = "idle"
    /\ outbound' = <<>>
    /\ fetched' = NoResponse
    /\ response' = NoResponse
    /\ UNCHANGED <<variant, env, isBot, targetUrl, parked, libVars, urlVars, apiVars>>

ConcEnvs ==
    {[REAL_URL |-> "https://real.example/base", BOT_URL |-> "https://decoy.example/landing"],
     [REAL_URL |-> "https://your-site.com", BOT_URL |-> "https://decoy-site.com/?src=b"]}

ConcRequests ==
    {mkRequest("GET", "/p/abc123/extra/seg", "x=1", ua, null, "text/html", "en-US", "gzip", "") :
        ua \in {BrowserUA, BytespiderUA}}
    \cup {mkRequest("POST", "/products", "id=5", TrillWebViewUA, null, "text/html", "en-US",
                    "gzip", "payload"),
          mkRequest("POST", "/p/abc123/extra/seg", "x=1", BytespiderUA, null, "text/html",
                    "en-US", "gzip", Unreadable)}

ConcUpstreams == {u \in Upstreams : u.status \in {200, 404, 204} /\ u.body # Unreadable}

InitConc ==
    /\ variant \in Variants
    /\ env \in ConcEnvs
    /\ inbound = NoRequest
    /\ pc = "idle"
    /\ isBot = FALSE
    /\ targetUrl = undefined
    /\ outbound = <<>>
    /\ fetched = NoResponse
    /\ response = NoResponse
    /\ parked = <<>>
    /\ LibIdle
    /\ UrlIdle
    /\ ApiIdle

NextConc ==
    \/ \E r \in ConcRequests : middleware(r)
    \/ \E r \in ConcRequests : middleware_ssr(r)
    \/ \E upstream \in ConcUpstreams : fetchResolved_ssr(upstream)
    \/ fetchRejected_ssr
    \/ \E r \in ConcRequests : middleware_proxy(r)
    \/ \E upstream \in ConcUpstreams : fetchResolved_proxy(upstream)
    \/ fetchRejected_proxy
    \/ awaitFetch
    \/ \E i \in 1..MaxParked : resumeFetch(i)
    \/ returnResponse

SpecConc == InitConc /\ [][NextConc]_vars

-----------------------------------------------------------------------------
(* The configuration API: pages/api/config.ts and pages/api/config/[id].ts *)

\* s.trim()
trim(s) ==
    LET kept == {i \in 1..Len(s) : CharAt(s, i) # " "}
    IN  IF kept = {} THEN ""
        ELSE SubSeq(s, CHOOSE i \in kept : \A j \in kept : i <= j,
                       CHOOSE i \in kept : \A j \in kept : i >= j)

\* isValidUrl: new URL(url) parses (the parser strips leading and trailing
\* spaces) and the protocol is http: or https:
isValidUrl(url) ==
    LET parsed == parseURL(trim(url))
    IN  /\ parsed.ok
        /\ startsWith(href(parsed), "http:") \/ startsWith(href(parsed), "https:")

\* nanoid(): an identifier no earlier call has returned
IdPool == <<"V1StGXR8_Z5jdHi6B-myT", "a3Kj9x2p", "abc123", "Uakgb_J5m9g-0JDMbcJqL">>

nanoid(n) == IdPool[n + 1]

\* Successful creations and clock readings explored
MaxPosts == 2

MaxNow == 2

\* The value kv.get resolves with for a key that is not set
Missing == [missing |-> TRUE]

EmptyStore == [k \in {} |-> Missing]

proxyKey(id) == "proxy:" \o id

kv_get(store, key) == IF key \in DOMAIN store THEN store[key] ELSE Missing

\* Variant: the write is lost
kv_set_dropped(store, key, value) == store

kv_set(store, key, value) == (key :> value) @@ store

\* generateProxyUrl
generateProxyUrl(proxyId, request) ==
    LET host == OrElse(request.headers.host, "localhost:3000")
        protocol == IF includes(host, "localhost") THEN "http" ELSE "https"
    IN  IF Truthy(apiEnv.VERCEL_URL)
        THEN "https://" \o apiEnv.VERCEL_URL \o "/p/" \o proxyId
        ELSE protocol \o "://" \o host \o "/p/" \o proxyId

CorsHeaders ==
    ("access-control-allow-credentials" :> "true")
    @@ ("access-control-allow-origin" :> "*")
    @@ ("access-control-allow-methods" :> "GET,POST,OPTIONS")
    @@ ("access-control-allow-headers" :> "X-Requested-With, Content-Type, Accept")

\* res.status(status).json(json)
jsonResponse(status, json, headers) == [status |-> status, json |-> json, headers |-> headers]

errorJson(error, details) == [success |-> FALSE, error |-> error, details |-> details]

\* a query parameter given more than once is a string[]
ArrayValue == "<string[]>"

isString(v) == v # undefined /\ v # null /\ v # ArrayValue

\* handlePost of pages/api/config.ts
handlePost(req) ==
    LET realUrl == req.body.realUrl
        botUrl == req.body.botUrl
        invalid(details) ==
            /\ apiRes' = jsonResponse(400, errorJson("Invalid URL format", details), CorsHeaders)
            /\ kvSettled' = "none"
            /\ UNCHANGED <<kvStore, clock, generated, returned>>
    IN  IF ~Truthy(realUrl) \/ ~Truthy(botUrl)
        THEN /\ apiRes' = jsonResponse(400, errorJson("Missing required fields",
                                "Both realUrl and botUrl are required"), CorsHeaders)
             /\ kvSettled' = "none"
             /\ UNCHANGED <<kvStore, clock, generated, returned>>
        ELSE IF ~isValidUrl(realUrl)
        THEN invalid("realUrl must be a valid HTTP or HTTPS URL")
        ELSE IF ~isValidUrl(botUrl)
        THEN invalid("botUrl must be a valid HTTP or HTTPS URL")
        ELSE /\ generated < MaxPosts
             /\ generated < Len(IdPool)
             /\ \E t \in clock..MaxNow, settled \in {"resolved", "rejected"} :
                  LET proxyId == nanoid(generated)
                      config == [realUrl |-> trim(realUrl), botUrl |-> trim(botUrl),
                                 createdAt |-> t]
                      created == [success |-> TRUE, proxyId |-> proxyId,
                                  proxyUrl |-> generateProxyUrl(proxyId, req),
                                  config |-> config]
                  IN  /\ generated' = generated + 1
                      /\ clock' = t
                      /\ kvSettled' = settled
                      /\ IF settled = "resolved"
                         THEN /\ kvStore' = kv_set(kvStore, proxyKey(proxyId), config)
                              /\ apiRes' = jsonResponse(201, created, CorsHeaders)
                              /\ returned' = returned \cup {created}
                         ELSE /\ kvStore' = kvStore
                              /\ apiRes' = jsonResponse(500,
                                    errorJson("Failed to create proxy configuration",
                                              "Unknown error"), CorsHeaders)
                              /\ returned' = returned

\* The default export of pages/api/config.ts
handler_config(req) ==
    /\ apiReq' = [route |-> "/api/config"] @@ req
    /\ CASE req.method = "OPTIONS" ->
              /\ apiRes' = jsonResponse(200, [none |-> TRUE], CorsHeaders)
              /\ kvSettled' = "none"
              /\ UNCHANGED <<kvStore, clock, generated, returned>>
         [] req.method = "POST" -> handlePost(req)
         [] req.method = "GET" ->
              /\ apiRes' = jsonResponse(200,
                    [success |-> TRUE,
                     message |-> "To retrieve a specific config, use GET /api/config/[proxyId]"],
                    CorsHeaders)
              /\ kvSettled' = "none"
              /\ UNCHANGED <<kvStore, clock, generated, returned>>
         [] OTHER ->
              /\ apiRes' = jsonResponse(405, errorJson("Method not allowed",
                                "Method " \o req.method \o " is not supported"), CorsHeaders)
              /\ kvSettled' = "none"
              /\ UNCHANGED <<kvStore, clock, generated, returned>>
    /\ UNCHANGED <<apiEnv, libVars, urlVars, mwVars>>

\* The default export of pages/api/config/[id].ts
handler_configId(req) ==
    /\ apiReq' = [route |-> "/api/config/[id]"] @@ req
    /\ LET id == req.query.id
       IN  IF req.method # "GET"
           THEN /\ apiRes' = jsonResponse(405, errorJson("Method not allowed",
                                "Only GET requests are supported"), EmptyHeaders)
                /\ kvSettled' = "none"
           ELSE IF ~Truthy(id) \/ ~isString(id)
           THEN /\ apiRes' = jsonResponse(400, errorJson("Invalid proxy ID",
                                "Proxy ID must be provided in the URL"), EmptyHeaders)
                /\ kvSettled' = "none"
           ELSE \E settled \in {"resolved", "rejected"} :
                  /\ kvSettled' = settled
                  /\ IF settled = "rejected"
                     THEN apiRes' = jsonResponse(500,
                             errorJson("Failed to retrieve proxy configuration",
                                       "Unknown error"), EmptyHeaders)
                     ELSE LET config == kv_get(kvStore, proxyKey(id))
                          IN  IF config = Missing
                              THEN apiRes' = jsonResponse(404,
                                      errorJson("Proxy configuration not found",
                                          "No configuration found for proxy ID: " \o id),
                                      EmptyHeaders)
                              ELSE apiRes' = jsonResponse(200,
                                      [success |-> TRUE, proxyId |-> id, config |-> config],
                                      EmptyHeaders)
    /\ UNCHANGED <<apiEnv, kvStore, clock, generated, returned, libVars, urlVars, mwVars>>

\* process.env of the API deployment
ApiEnvs == {[VERCEL_URL |-> undefined], [VERCEL_URL |-> "your-app.vercel.app"]}

RealUrlInputs ==
    {undefined, "", "not-a-url", "ftp://files.example/x",
     "https://your-main-site.com", " https://your-main-site.com/a "}

BotUrlInputs == {undefined, "javascript:alert(1)", "https://decoy-site.com"}

ConfigRequests ==
    {[method |-> m, headers |-> [host |-> h], body |-> [realUrl |-> r, botUrl |-> b]] :
        m \in {"POST"}, h \in {undefined, "your-app.vercel.app"},
        r \in RealUrlInputs, b \in BotUrlInputs}
    \cup {[method |-> m, headers |-> [host |-> "localhost:3000"],
           body |-> [realUrl |-> undefined, botUrl |-> undefined]] :
            m \in {"GET", "OPTIONS", "DELETE"}}

ConfigIdRequests ==
    {[method |-> "GET", query |-> [id |-> id]] :
        id \in {nanoid(n) : n \in 0..(Len(IdPool) - 1)} \cup {"unknown", "", undefined, ArrayValue}}
    \cup {[method |-> "POST", query |-> [id |-> nanoid(0)]]}

InitApi ==
    /\ apiEnv \in ApiEnvs
    /\ kvStore = EmptyStore
    /\ apiReq = NoRequest
    /\ apiRes = NoResponse
    /\ clock = 1
    /\ generated = 0
    /\ returned = {}
    /\ kvSettled = "none"
    /\ LibIdle
    /\ UrlIdle
    /\ MwIdle

NextApi ==
    \/ \E req \in ConfigRequests : handler_config(req)
    \/ \E req \in ConfigIdRequests : handler_configId(req)

SpecApi == InitApi /\ [][NextApi]_vars

-----------------------------------------------------------------------------
(* Properties of the classifier library (checked under SpecLib)            *)

\* s contains one of the strings of the set, compared as written
containsAny(s, markers) == \E m \in markers : includes(s, m)

WebViewMarkers == {"trill", "musical_ly", "BytedanceWebview", "JsSdk/1.0", "JsSdk/2.0"}
NamedCrawlerMarkers == {"Bytespider", "TikTokSpider"}
AICrawlerMarkers ==
    {"chatgpt-user", "gptbot", "openai", "claude-web", "anthropic-ai", "anthropic",
     "perplexitybot", "perplexity", "coherebot", "cohere", "bingbot",
     "google-extended", "omgilibot", "omgili", "facebookexternalhit",
     "meta-externalagent"}
GenericMarkers ==
    {"bot", "crawler", "spider", "scraper", "curl", "wget", "python-requests",
     "java/", "go-http-client", "headlesschrome", "phantomjs", "selenium",
     "puppeteer", "playwright", "scrapy", "mechanize"}

detectBotReturned == libResult # <<>>

\* C1: whenever the User-Agent contains a webview marker (as written),
\* detectBot returns isBot = FALSE with confidence high, whatever other
\* markers the string carries and whatever the referer and headers are.
C1_WebViewIsHuman ==
    (detectBotReturned /\ containsAny(libArgs.userAgent, WebViewMarkers))
        => (libResult[1].isBot = FALSE /\ libResult[1].confidence = "high")

\* C1 witness: a webview User-Agent that also names a crawler, sent with
\* a tiktok referer and no standard header, was classified human.
C1_Witness ==
    /\ detectBotReturned
    /\ containsAny(libArgs.userAgent, WebViewMarkers)
    /\ containsAny(libArgs.userAgent, NamedCrawlerMarkers)
    /\ libArgs.referer # ""
    /\ libArgs.headers = [h \in StdHeaders |-> null]
    /\ libResult[1].isBot = FALSE

\* C3: a User-Agent with 'Bytespider' or 'TikTokSpider' in that casing and
\* no webview marker is a bot with confidence high, for every referer and
\* header view.
C3_NamedCrawlerIsBot ==
    (/\ detectBotReturned
     /\ containsAny(libArgs.userAgent, NamedCrawlerMarkers)
     /\ ~containsAny(libArgs.userAgent, WebViewMarkers))
        => (libResult[1].isBot = TRUE /\ libResult[1].confidence = "high")

\* C3 witness: TikTokSpider sent with all four standard headers
C3_Witness ==
    /\ detectBotReturned
    /\ includes(libArgs.userAgent, "TikTokSpider")
    /\ ~containsAny(libArgs.userAgent, WebViewMarkers)
    /\ libArgs.headers = [h \in StdHeaders |-> "x"]
    /\ libResult[1].isBot = TRUE
    /\ libResult[1].confidence = "high"

hasNoMarker(userAgent) ==
    /\ ~containsAny(userAgent, WebViewMarkers)
    /\ ~containsAny(userAgent, NamedCrawlerMarkers)
    /\ ~containsAny(toLowerCase(userAgent), AICrawlerMarkers)
    /\ ~containsAny(toLowerCase(userAgent), GenericMarkers)

\* C5: a User-Agent with no marker of any of the four tables, the empty one
\* included, is human with confidence high whichever standard headers are
\* present or absent.
C5_NoMarkerIsHuman ==
    (detectBotReturned /\ hasNoMarker(libArgs.userAgent))
        => (libResult[1].isBot = FALSE /\ libResult[1].confidence = "high")

\* C5 witness: the empty User-Agent with none of the four headers
C5_Witness ==
    /\ detectBotReturned
    /\ libArgs.userAgent = ""
    /\ libArgs.headers = [h \in StdHeaders |-> null]
    /\ libResult[1] = [isBot |-> FALSE, reason |-> NoReason, confidence |-> "high"]

-----------------------------------------------------------------------------
(* Properties of buildRedirectUrl (checked under SpecUrl)                  *)

buildRedirectUrlReturned == urlResult # <<>>

\* s without its last character if that is a slash
withoutTrailingSlash(s) ==
    IF s # "" /\ SubSeq(s, Len(s), Len(s)) = "/" THEN SubSeq(s, 1, Len(s) - 1) ELSE s

\* Position of the slash that ends the second segment of a pathname
\* ("/p/{id}" followed by "/"), 0 if the path has at most two segments
thirdSlash(pathname) ==
    LET second == indexOf(pathname, "/", 2)
    IN  IF second = 0 THEN 0 ELSE indexOf(pathname, "/", second + 1)

\* What follows "/p/{id}/" in the pathname
afterPrefix(pathname) ==
    IF thirdSlash(pathname) = 0 THEN ""
    ELSE SubSeq(pathname, thirdSlash(pathname) + 1, Len(pathname))

\* The inbound path is /p/{id} followed by zero or more segments
underProxyPrefix(pathname) == startsWith(pathname, "/p/abc123")

ExampleCall ==
    [baseUrl |-> "https://real.example/base",
     nextUrl |-> [pathname |-> "/p/abc123/extra/seg", search |-> "x=1"]]

\* C8 as stated: for every inbound path /p/{id}/s1/.../sn the Location path
\* is the base path with one trailing slash removed, followed by
\* /s1/.../sn (nothing when no segment follows the prefix; the empty path
\* of an http URL reads "/").
C8_AsStated ==
    (/\ buildRedirectUrlReturned
     /\ parseURL(urlArgs.baseUrl).ok
     /\ underProxyPrefix(urlArgs.nextUrl.pathname))
        => LET pathname == urlArgs.nextUrl.pathname
               rest == IF thirdSlash(pathname) = 0 THEN ""
                       ELSE SubSeq(pathname, thirdSlash(pathname), Len(pathname))
               stated == withoutTrailingSlash(parseURL(urlArgs.baseUrl).pathname) \o rest
           IN  parseURL(urlResult[1]).pathname = IF stated = "" THEN "/" ELSE stated

\* C8 (amended): when the text after /p/{id}/ is not empty, the Location
\* path is the base path with one trailing slash removed, a slash and that
\* text; when nothing follows the prefix (the path has at most two segments
\* or only a trailing slash) the base path is kept as it is, trailing slash
\* included.  The first two inbound segments are never copied, and the
\* example call yields https://real.example/base/extra/seg?x=1.
C8_PathAfterPrefixAppended ==
    (buildRedirectUrlReturned /\ parseURL(urlArgs.baseUrl).ok)
        => LET rest == afterPrefix(urlArgs.nextUrl.pathname)
               basePath == parseURL(urlArgs.baseUrl).pathname
           IN  /\ parseURL(urlResult[1]).pathname =
                      IF rest # "" THEN withoutTrailingSlash(basePath) \o "/" \o rest
                      ELSE basePath
               /\ (urlArgs = ExampleCall =>
                      urlResult[1] = "https://real.example/base/extra/seg?x=1")

\* C8 witness: the example call has returned the example Location
C8_Witness ==
    /\ buildRedirectUrlReturned
    /\ urlArgs = ExampleCall
    /\ urlResult[1] = "https://real.example/base/extra/seg?x=1"

\* The name/value pairs of the query of a URL string, in order
queryPairs(u) == parseQuery(parseURL(u).search)

\* C10: the query of the result is the base URL's parameters, unchanged and
\* in order, followed by every inbound parameter in inbound order; an
\* inbound parameter named like an existing one is a further entry.
C10_QueryAppended ==
    (buildRedirectUrlReturned /\ parseURL(urlArgs.baseUrl).ok)
        => queryPairs(urlResult[1]) =
               queryPairs(urlArgs.baseUrl) \o parseQuery(urlArgs.nextUrl.search)

\* C10 witness: a base URL carrying x=0 received x=1 and x=2 and kept all three
C10_Witness ==
    /\ buildRedirectUrlReturned
    /\ urlArgs.baseUrl = "https://real.example/base?x=0"
    /\ urlArgs.nextUrl.search = "x=1&x=2"
    /\ queryPairs(urlResult[1]) = <<<<"x", "0">>, <<"x", "1">>, <<"x", "2">>>>

-----------------------------------------------------------------------------
(* Properties of the middleware variants (checked under Spec)              *)

Configured == Truthy(REAL_URL) /\ Truthy(BOT_URL)

classified == pc # "idle" /\ Configured

isRedirect == response # NoResponse /\ response.status = 302

Location == response.headers["location"]

\* URL u points at the destination base: same origin, the base's path (up
\* to a trailing slash) as a prefix of its path, the base's query first; a
\* base that is not an absolute URL is only pointed at by itself
usesDestination(u, base) ==
    LET used == parseURL(u)
        dest == parseURL(base)
        usedQuery == parseQuery(used.search)
        destQuery == parseQuery(dest.search)
    IN  IF ~dest.ok THEN u = base
        ELSE /\ used.ok
             /\ used.origin = dest.origin
             /\ startsWith(used.pathname, withoutTrailingSlash(dest.pathname))
             /\ Len(usedQuery) >= Len(destQuery)
             /\ SubSeq(usedQuery, 1, Len(destQuery)) = destQuery

\* The URLs the request was sent to: the Location of a redirect response
\* and the URL of every outbound fetch
usedUrls ==
    (IF isRedirect THEN {Location} ELSE {})
        \cup {outbound[i].url : i \in 1..Len(outbound)}

webViewRequest ==
    /\ inbound # NoRequest
    /\ inbound.headers["user-agent"] # null
    /\ containsAny(inbound.headers["user-agent"], WebViewMarkers)

\* C2: in every variant a request whose User-Agent contains a webview
\* marker is classified human and sent to REAL_URL, never to BOT_URL.
C2_WebViewRoutedToReal ==
    (classified /\ webViewRequest)
        => (/\ isBot = FALSE
            /\ targetUrl = REAL_URL
            /\ \A u \in usedUrls : usesDestination(u, REAL_URL))

\* C4: with both destinations configured, every URL used for a request
\* (Location base, fetched URL) is BOT_URL's when the variant's classifier
\* says bot for the request and REAL_URL's otherwise, and never the other.
C4_DestinationFollowsVerdict ==
    classified
        => LET bot == classify(variant, inbound)
           IN  \A u \in usedUrls :
                  /\ usesDestination(u, IF bot THEN BOT_URL ELSE REAL_URL)
                  /\ ~usesDestination(u, IF bot THEN REAL_URL ELSE BOT_URL)

\* C4 witness: the redirect variant answered a request it classified as a
\* bot with a Location under BOT_URL
C4_Witness ==
    /\ variant = "redirect"
    /\ classified
    /\ isRedirect
    /\ classify(variant, inbound) = TRUE
    /\ usesDestination(Location, BOT_URL)

\* C9: in the static deployment the whole inbound path is carried over to
\* the target: a human request for /products?id=5 is redirected to
\* <REAL_URL>/products?id=5.
C9_WholePathCarried ==
    (/\ variant = "redirect"
     /\ classified
     /\ isRedirect
     /\ isBot = FALSE
     /\ inbound.nextUrl.pathname # "/"
     /\ ~startsWith(inbound.nextUrl.pathname, "/p/"))
        => /\ parseURL(Location).pathname =
                  withoutTrailingSlash(parseURL(REAL_URL).pathname)
                      \o inbound.nextUrl.pathname
           /\ (/\ inbound.nextUrl = [pathname |-> "/products", search |-> "id=5"]
               /\ REAL_URL = "https://your-site.com")
                  => Location = "https://your-site.com/products?id=5"

-----------------------------------------------------------------------------
(* Error handling of the middleware variants (checked under Spec)          *)

handled == pc = "done"

\* The awaited fetch settled with an upstream response
fetchResolved == fetched # NoResponse /\ fetched # Thrown

\* The awaited fetch was called and rejected
fetchRejected == fetched = Thrown

\* The URL the handler composed for the request from its target
composedUrl == buildRedirectUrl(targetUrl, inbound.nextUrl)

hasHeader(resp, name) == name \in DOMAIN resp.headers

\* C11: in the redirect middleware, when the target URL cannot be composed
\* because the base URL does not parse, the request is still answered with
\* a redirect whose Location is the unmodified base URL, not with an error
\* response.
C11_FallsBackToBaseUrl ==
    (/\ variant = "redirect"
     /\ classified
     /\ handled
     /\ ~parseURL(targetUrl).ok)
        => (/\ isRedirect
            /\ hasHeader(response, "location")
            /\ Location = targetUrl)

\* An environment variable that is not set (or set to the empty string)
unset(v) == ~Truthy(v)

NotConfiguredBody == "<title>Proxy Not Configured</title>"

\* Nothing was done for the request besides answering it
notDispatched ==
    /\ isBot = FALSE
    /\ targetUrl = undefined
    /\ outbound = <<>>
    /\ fetched = NoResponse
    /\ ~hasHeader(response, "location")

\* C12 as stated: in every variant a request handled while REAL_URL or
\* BOT_URL is not set is answered 500 with the fixed explanatory body and is
\* neither classified, redirected nor fetched.
C12_AsStated ==
    (pc # "idle" /\ (unset(env.REAL_URL) \/ unset(env.BOT_URL)))
        => (/\ handled
            /\ response.status = 500
            /\ response.body = NotConfiguredBody
            /\ notDispatched)

\* C12 (amended): in the redirect and proxy variants a request handled
\* while REAL_URL or BOT_URL is not set is answered 500 with the fixed
\* explanatory body and is neither classified, redirected nor fetched; the
\* SSR variant puts its built-in address in the place of a variable that is
\* not set, classifies the request and fetches the target as usual.
C12_UnsetDestinationAnswered500 ==
    (pc # "idle" /\ (unset(env.REAL_URL) \/ unset(env.BOT_URL)))
        => IF variant \in {"redirect", "proxy"}
           THEN /\ handled
                /\ response.status = 500
                /\ response.body = NotConfiguredBody
                /\ notDispatched
           ELSE /\ isBot = detectTikTokBot_ssr(inbound)
                /\ targetUrl = IF isBot THEN OrElse(env.BOT_URL, SSR_DEFAULT_BOT_URL)
                               ELSE OrElse(env.REAL_URL, SSR_DEFAULT_REAL_URL)
                /\ (bodyReadThrows(inbound) \/ outbound = <<[url |-> targetUrl]
                        @@ fetchInit(inbound, SsrDefaults, "follow")>>)

\* C12 witness: the proxy variant, deployed with BOT_URL only, answered a
\* crawler with the "not configured" page
C12_Witness ==
    /\ variant = "proxy"
    /\ unset(env.REAL_URL)
    /\ ~unset(env.BOT_URL)
    /\ handled
    /\ inbound.headers["user-agent"] = BytespiderUA
    /\ response = NotConfiguredResponse
    /\ notDispatched

\* C13: in the two reverse-proxy variants, whenever the outbound fetch has
\* resolved (and its body could be read), the response to the client has
\* the upstream's status, the upstream's body and the upstream's
\* Content-Type; it is never the 503 page or the 302 fallback.
C13_UpstreamRelayed ==
    (/\ variant \in {"ssr", "proxy"}
     /\ handled
     /\ fetchResolved
     /\ fetched.body # Unreadable)
        => (/\ response.status = fetched.status
            /\ response.body = fetched.body
            /\ (Truthy(fetched.headers["content-type"]) =>
                   /\ hasHeader(response, "content-type")
                   /\ response.headers["content-type"] = fetched.headers["content-type"]))

\* Something threw inside the try block around the outbound fetch: reading
\* the inbound body, the fetch itself, or reading the upstream body
fetchBlockThrew ==
    /\ handled
    /\ \/ bodyReadThrows(inbound)
       \/ fetchRejected
       \/ (fetchResolved /\ fetched.body = Unreadable)

\* C14: in the two reverse-proxy variants, when the fetch or a body read
\* throws, the answer is the variant's fixed fallback: the 503 page in the
\* SSR variant, a 302 redirect in the proxy variant; no exception leaves
\* the handler.
C14_FetchFailureAnsweredByFallback ==
    (variant \in {"ssr", "proxy"} /\ classified /\ fetchBlockThrew)
        => (/\ response # Thrown
            /\ IF variant = "ssr" THEN response = UnavailableResponse
               ELSE response.status = 302)

\* C15 as stated: in the proxy variant a failed fetch is answered with a
\* 302 redirect to REAL_URL whatever the verdict was.
C15_AsStated ==
    (/\ variant = "proxy"
     /\ classified
     /\ handled
     /\ fetchRejected
     /\ parseURL(targetUrl).ok)
        => (isRedirect /\ usesDestination(Location, REAL_URL))

\* C15 (amended): in the proxy variant a failed fetch is answered with a
\* 302 redirect to the URL whose fetch failed, which is composed from the
\* verdict's destination: BOT_URL for a bot, REAL_URL for a human.  When
\* that URL is not an absolute URL the redirect cannot be built and the
\* answer is the 500 of the outermost handler.
C15_FallbackRedirectsToFetchedUrl ==
    (variant = "proxy" /\ classified /\ handled /\ fetchRejected)
        => LET proxyUrl == outbound[Len(outbound)].url
           IN  IF parseURL(proxyUrl).ok
               THEN /\ isRedirect
                    /\ Location = href(parseURL(proxyUrl))
                    /\ usesDestination(Location, IF isBot THEN BOT_URL ELSE REAL_URL)
                    /\ ~usesDestination(Location, IF isBot THEN REAL_URL ELSE BOT_URL)
               ELSE response = ProxyServiceErrorResponse

\* C15 witness: a crawler's fetch failed and the fallback points at BOT_URL
C15_Witness ==
    /\ variant = "proxy"
    /\ classified
    /\ handled
    /\ fetchRejected
    /\ isBot = TRUE
    /\ isRedirect
    /\ usesDestination(Location, BOT_URL)

\* The redirect (of the redirect variant) or the fallback redirect (of the
\* proxy variant, after the fetch block threw) was asked for a URL that is
\* not absolute and threw: an exception outside the fetch block
redirectThrew ==
    /\ variant \in {"redirect", "proxy"}
    /\ classified
    /\ handled
    /\ ~parseURL(composedUrl).ok

GenericErrorBodies == {"Proxy service error", "Service Error"}

\* C16: a handled request always has a response, never an exception; an
\* exception raised outside the fetch block is answered 500 with the short
\* fixed plain-text body of the outermost handler.
C16_NeverThrows ==
    handled
        => (/\ response # Thrown
            /\ response # NoResponse
            /\ response.status \in 200..599
            /\ redirectThrew =>
                  /\ response.status = 500
                  /\ response.body \in GenericErrorBodies
                  /\ response.headers["content-type"] = "text/plain;charset=UTF-8"
                  /\ ~hasHeader(response, "location"))

\* C16 witness: the redirect variant, with a REAL_URL that is not an
\* absolute URL, answered a browser with the generic 500
C16_Witness ==
    /\ variant = "redirect"
    /\ redirectThrew
    /\ isBot = FALSE
    /\ response = ProxyServiceErrorResponse

-----------------------------------------------------------------------------
(* Further properties of the classifier library (checked under SpecLib)    *)

\* C17: isTikTokReferer is FALSE for the referer of every call, and the
\* result detectBot returned is the one it returns for every other referer
\* with the same User-Agent and header view.
C17_RefererInert ==
    detectBotReturned
        => (/\ isTikTokReferer(libArgs.referer) = FALSE
            /\ \A other \in Referers :
                  detectBot(libArgs.userAgent, other, libArgs.headers) = libResult[1])

\* C17 witness: a browser arriving from a tiktok.com page was classified
\* human
C17_Witness ==
    /\ detectBotReturned
    /\ includes(toLowerCase(libArgs.referer), "tiktok.com")
    /\ libArgs.userAgent = "Mozilla/5.0"
    /\ isTikTokReferer(libArgs.referer) = FALSE
    /\ libResult[1].isBot = FALSE

Confidences == {"high", "medium", "low"}

\* C18: for every User-Agent string, referer and header view (omitted, or
\* with any subset of the four standard headers missing) what the call to
\* detectBot returns is a verdict: a boolean isBot and a confidence among
\* high, medium and low; it is never an exception.
C18_AlwaysAVerdict ==
    detectBotReturned
        => (/\ libResult[1] # Thrown
            /\ DOMAIN libResult[1] = {"isBot", "reason", "confidence"}
            /\ libResult[1].isBot \in BOOLEAN
            /\ libResult[1].confidence \in Confidences)

\* C18 witness: an automation User-Agent passed without a header view got a
\* verdict
C18_Witness ==
    /\ detectBotReturned
    /\ libArgs.headers = NoHeaders
    /\ libArgs.userAgent = "HeadlessChrome"
    /\ libResult[1].isBot \in BOOLEAN
    /\ libResult[1].confidence \in Confidences

\* The User-Agent has a generic-automation marker (in any letter case) and
\* no webview, named-crawler or AI-crawler marker
genericOnly(userAgent) ==
    /\ ~containsAny(userAgent, WebViewMarkers)
    /\ ~containsAny(userAgent, NamedCrawlerMarkers)
    /\ ~containsAny(toLowerCase(userAgent), AICrawlerMarkers)
    /\ containsAny(toLowerCase(userAgent), GenericMarkers)

\* The standard headers the view reports absent
absentHeaders(headers) == {h \in StdHeaders : headers[h] = null}

\* C19: for a User-Agent with a generic-automation marker only, when Accept
\* is the one standard header that is absent, detectBot returns bot with
\* confidence medium and isBotRequest returns TRUE, whichever generic
\* marker matched.
C19_AcceptAloneMissingIsMedium ==
    (/\ detectBotReturned
     /\ genericOnly(libArgs.userAgent)
     /\ libArgs.headers # NoHeaders
     /\ absentHeaders(libArgs.headers) = {"accept"}
     /\ \A h \in StdHeaders \ {"accept"} : Truthy(libArgs.headers[h]))
        => (/\ libResult[1].isBot = TRUE
            /\ libResult[1].confidence = "medium"
            /\ (libBool # <<>> => libBool[1] = TRUE))

\* C20: for a User-Agent with a generic-automation marker only (in any
\* letter case), when the header view reports at least two of the four
\* standard headers absent, detectBot returns bot with confidence medium.
C20_TwoMissingIsMedium ==
    (/\ detectBotReturned
     /\ genericOnly(libArgs.userAgent)
     /\ libArgs.headers # NoHeaders
     /\ Cardinality(absentHeaders(libArgs.headers)) >= 2)
        => (/\ libResult[1].isBot = TRUE
            /\ libResult[1].confidence = "medium")

\* C20 witness: HeadlessChrome (mixed case, not one of the obvious tools)
\* sent with exactly two of the four headers got medium from the header
\* rule
C20_Witness ==
    /\ detectBotReturned
    /\ libArgs.userAgent = "HeadlessChrome"
    /\ libArgs.headers # NoHeaders
    /\ Cardinality(absentHeaders(libArgs.headers)) = 2
    /\ libResult[1] = [isBot |-> TRUE,
                       reason |-> "Generic bot pattern with headless browser indicators",
                       confidence |-> "medium"]

ObviousToolMarkers == {"curl", "wget", "python-requests", "scrapy"}

\* The verdict of the last generic rule for a User-Agent
genericVerdict(userAgent) ==
    IF containsAny(toLowerCase(userAgent), ObviousToolMarkers)
    THEN [isBot |-> TRUE, reason |-> "Automated tool detected", confidence |-> "medium"]
    ELSE [isBot |-> TRUE, reason |-> "Generic bot pattern detected", confidence |-> "low"]

\* C21 as stated: for a User-Agent with a generic-automation marker only,
\* sent with all four standard headers present, detectBot returns bot with
\* confidence medium if the User-Agent names curl, wget, python-requests or
\* scrapy (any letter case) and low otherwise.
C21_AsStated ==
    (/\ detectBotReturned
     /\ genericOnly(libArgs.userAgent)
     /\ libArgs.headers # NoHeaders
     /\ \A h \in StdHeaders : libArgs.headers[h] # null)
        => (/\ libResult[1].isBot = TRUE
            /\ libResult[1].confidence = genericVerdict(libArgs.userAgent).confidence)

\* C21 (amended): the same, when each of the four standard headers is
\* present with a non-empty value (a header sent with an empty value is
\* counted as missing by the header rule).
C21_GenericAloneIsMediumOrLow ==
    (/\ detectBotReturned
     /\ genericOnly(libArgs.userAgent)
     /\ libArgs.headers # NoHeaders
     /\ \A h \in StdHeaders : Truthy(libArgs.headers[h]))
        => libResult[1] = genericVerdict(libArgs.userAgent)

\* C21 witness: curl and HeadlessChrome in one User-Agent, all four headers
\* sent, got medium from the obvious-tool rule
C21_Witness ==
    /\ detectBotReturned
    /\ libArgs.userAgent = "curl/8.4.0 HeadlessChrome"
    /\ libArgs.headers = [h \in StdHeaders |-> "x"]
    /\ libResult[1] = [isBot |-> TRUE, reason |-> "Automated tool detected",
                       confidence |-> "medium"]

\* C22: a User-Agent with an AI-crawler marker in any letter case, no
\* webview marker and no named-crawler marker as written is a bot with
\* confidence high for every header view, also when it matches a
\* generic-automation marker.
C22_AICrawlerIsBot ==
    (/\ detectBotReturned
     /\ ~containsAny(libArgs.userAgent, WebViewMarkers)
     /\ ~containsAny(libArgs.userAgent, NamedCrawlerMarkers)
     /\ containsAny(toLowerCase(libArgs.userAgent), AICrawlerMarkers))
        => (/\ libResult[1].isBot = TRUE
            /\ libResult[1].confidence = "high")

\* C22 witness: GPTBot/1.0 (which also contains 'bot') sent with none of
\* the standard headers got high from the AI rule
C22_Witness ==
    /\ detectBotReturned
    /\ libArgs.userAgent = "GPTBot/1.0"
    /\ containsAny(toLowerCase(libArgs.userAgent), GenericMarkers)
    /\ libArgs.headers = [h \in StdHeaders |-> null]
    /\ libResult[1] = [isBot |-> TRUE, reason |-> "ChatGPT/AI bot user-agent detected",
                       confidence |-> "high"]

\* The User-Agent names a crawler, but not in the documented casing
namedInOtherCasing(userAgent) ==
    /\ ~containsAny(userAgent, NamedCrawlerMarkers)
    /\ containsAny(toLowerCase(userAgent), {toLowerCase(m) : m \in NamedCrawlerMarkers})

GenericReasons ==
    {"Generic bot pattern with headless browser indicators",
     "Automated tool detected", "Generic bot pattern detected"}

\* C30: a User-Agent naming a crawler only in another casing, with no
\* AI-crawler marker, never gets the bot verdict with confidence high; when
\* it has no webview marker its verdict is one of the generic rules'.
C30_NamedCrawlerCaseSensitive ==
    (/\ detectBotReturned
     /\ namedInOtherCasing(libArgs.userAgent)
     /\ ~containsAny(toLowerCase(libArgs.userAgent), AICrawlerMarkers))
        => (/\ ~(libResult[1].isBot = TRUE /\ libResult[1].confidence = "high")
            /\ ~containsAny(libArgs.userAgent, WebViewMarkers)
                  => (/\ libResult[1].isBot = TRUE
                      /\ libResult[1].reason \in GenericReasons
                      /\ libResult[1].confidence \in {"medium", "low"}))

\* C30 witness: 'bytespider' with all four headers got low from the last
\* generic rule
C30_Witness ==
    /\ detectBotReturned
    /\ libArgs.userAgent = "bytespider"
    /\ libArgs.headers = [h \in StdHeaders |-> "x"]
    /\ libResult[1] = [isBot |-> TRUE, reason |-> "Generic bot pattern detected",
                       confidence |-> "low"]

-----------------------------------------------------------------------------
(* Response headers, the outbound request and the number of fetches       *)

\* The response says which branch was taken: X-Bot-Detection (bot | human)
\* or X-Proxy-Mode (bot | user), with the value of the verdict
diagnosticAgrees ==
    /\ hasHeader(response, "x-bot-detection") \/ hasHeader(response, "x-proxy-mode")
    /\ hasHeader(response, "x-bot-detection")
          => response.headers["x-bot-detection"] = (IF isBot THEN "bot" ELSE "human")
    /\ hasHeader(response, "x-proxy-mode")
          => response.headers["x-proxy-mode"] = (IF isBot THEN "bot" ELSE "user")

\* C23: every response produced after the request was classified carries a
\* bot/human diagnostic header agreeing with the verdict, in every variant;
\* in the SSR variant X-Bot-Detection is 'bot' and X-Proxy-Target is
\* 'fake-url' exactly when BOT_URL was fetched, 'human' and 'real-url'
\* otherwise, and X-Render-Mode is 'server-side'.
C23_DiagnosticHeaderOnEveryResponse ==
    (handled /\ classified)
        => (/\ diagnosticAgrees
            /\ variant = "ssr"
                  => (/\ Len(outbound) = 1
                      /\ hasHeader(response, "x-bot-detection")
                      /\ hasHeader(response, "x-proxy-target")
                      /\ hasHeader(response, "x-render-mode")
                      /\ response.headers["x-bot-detection"]
                            = (IF outbound[1].url = BOT_URL THEN "bot" ELSE "human")
                      /\ response.headers["x-proxy-target"]
                            = (IF outbound[1].url = BOT_URL THEN "fake-url" ELSE "real-url")
                      /\ response.headers["x-render-mode"] = "server-side"))

\* the inbound body can be read when the fetch init asks for it
readable(r) == r.method \in {"GET", "HEAD"} \/ r.body # Unreadable

forwardedAsStated(defaults, absent(_)) ==
    /\ DOMAIN outbound[1].headers
          = {"user-agent", "accept", "accept-language", "accept-encoding"}
    /\ \A n \in DOMAIN outbound[1].headers :
          outbound[1].headers[n] = (IF absent(inbound.headers[n]) THEN defaults[n]
                                    ELSE inbound.headers[n])

variantDefaults == IF variant = "ssr" THEN SsrDefaults ELSE ProxyDefaults

isNull(v) == v = null

isNullOrEmpty(v) == v = null \/ v = ""

relayed ==
    /\ handled
    /\ fetchResolved
    /\ response.status = fetched.status
    /\ response.body = fetched.body

\* C28: a relayed response has Cache-Control with no-store and no-cache,
\* Pragma no-cache and Expires 0, whatever Cache-Control and Expires the
\* upstream response carried, in both reverse-proxy variants.
C28_CachingHeadersOverwritten ==
    relayed
        => (/\ hasHeader(response, "cache-control")
            /\ includes(response.headers["cache-control"], "no-store")
            /\ includes(response.headers["cache-control"], "no-cache")
            /\ hasHeader(response, "pragma")
            /\ response.headers["pragma"] = "no-cache"
            /\ hasHeader(response, "expires")
            /\ response.headers["expires"] = "0")

\* C28 witness: the proxy variant relayed an upstream response that allowed
\* caching, with its own caching headers
C28_Witness ==
    /\ relayed
    /\ variant = "proxy"
    /\ fetched.headers["cache-control"] = "public, max-age=3600"
    /\ fetched.headers["expires"] = "Thu, 01 Jan 2099 00:00:00 GMT"
    /\ response.headers["cache-control"] = "no-cache, no-store, must-revalidate"
    /\ response.headers["expires"] = "0"

-----------------------------------------------------------------------------
(* The configuration API: what is created can be read back                 *)

\* The last call is GET /api/config/P for an identifier P
getById ==
    /\ apiReq # NoRequest
    /\ apiReq.route = "/api/config/[id]"
    /\ apiReq.method = "GET"
    /\ Truthy(apiReq.query.id)
    /\ isString(apiReq.query.id)

\* The 201 responses that returned the identifier
returnedFor(id) == {created \in returned : created.proxyId = id}

\* C24 as stated: every GET /api/config/P after a 201 that returned P is
\* answered 200 with the realUrl, botUrl and createdAt the 201 returned; a
\* GET for an identifier no 201 has returned is answered 404, and changes
\* nothing.
C24_AsStated ==
    [][getById'
        => (/\ kvStore' = kvStore
            /\ returned' = returned
            /\ \A created \in returnedFor(apiReq'.query.id) :
                  /\ apiRes'.status = 200
                  /\ apiRes'.json.config = created.config
            /\ returnedFor(apiReq'.query.id) = {} => apiRes'.status = 404)]_vars

\* C24 (amended): the same whenever the store answers the read; when the
\* read fails the answer is 500, and no GET changes what is stored.
C24_StoredConfigReadBack ==
    [][getById'
        => (/\ kvStore' = kvStore
            /\ returned' = returned
            /\ kvSettled' = "rejected" => apiRes'.status = 500
            /\ kvSettled' = "resolved"
                  => (/\ \A created \in returnedFor(apiReq'.query.id) :
                            /\ apiRes'.status = 200
                            /\ apiRes'.json.proxyId = created.proxyId
                            /\ apiRes'.json.config = created.config
                      /\ returnedFor(apiReq'.query.id) = {} => apiRes'.status = 404))]_vars

\* C24 witness: after two creations the first identifier was read back with
\* the trimmed URLs and the creation time it was stored with
C24_Witness ==
    /\ getById
    /\ Cardinality(returned) = 2
    /\ apiReq.query.id = nanoid(0)
    /\ returnedFor(nanoid(0)) # {}
    /\ apiRes.status = 200
    /\ apiRes.json.config.realUrl = "https://your-main-site.com/a"
    /\ apiRes.json.config.botUrl = "https://decoy-site.com"
    /\ apiRes.json.config.createdAt = 1
    /\ clock = 2

-----------------------------------------------------------------------------
(* Concurrent requests do not interfere                                    *)

\* The headers of a relayed response for a verdict
relayHeaders(v, bot, upstream) ==
    IF v = "ssr"
    THEN ("x-render-mode" :> "server-side")
         @@ ("x-proxy-target" :> IF bot THEN "fake-url" ELSE "real-url")
         @@ ("x-bot-detection" :> IF bot THEN "bot" ELSE "human")
         @@ ("expires" :> "0") @@ ("pragma" :> "no-cache")
         @@ ("cache-control" :> "no-cache, no-store, must-revalidate, proxy-revalidate")
         @@ forwardHeaders(upstream, SsrHeadersToForward)
    ELSE ("x-proxy-mode" :> IF bot THEN "bot" ELSE "user")
         @@ ("expires" :> "0") @@ ("pragma" :> "no-cache")
         @@ ("cache-control" :> "no-cache, no-store, must-revalidate")
         @@ forwardHeaders(upstream, ProxyHeadersToForward)

\* The response the request of the running invocation gets when it is the
\* only one handled, for the way its fetch settled
aloneResponse ==
    LET bot == classify(variant, inbound)
        target == IF bot THEN BOT_URL ELSE REAL_URL
        url == buildRedirectUrl(target, inbound.nextUrl)
        relayedOrThrown ==
            IF fetchResolved THEN relay(fetched, relayHeaders(variant, bot, fetched))
            ELSE Thrown
    IN  CASE variant = "redirect" ->
               catchWith(NextResponse_redirect(url, 302, NoCacheHeaders),
                         ProxyServiceErrorResponse)
          [] variant = "ssr" ->
               catchWith(catchWith(relayedOrThrown, UnavailableResponse), ServiceErrorResponse)
          [] variant = "proxy" ->
               catchWith(catchWith(relayedOrThrown,
                                   NextResponse_redirect(url, 302, NoCacheHeaders)),
                         ProxyServiceErrorResponse)

\* C26: under every interleaving of invocations, the verdict and the
\* response of a request are the ones it gets when handled alone, and no
\* invocation writes the destination constants.
C26_NoInterference ==
    /\ env \in ConcEnvs
    /\ handled
          => (/\ isBot = classify(variant, inbound)
              /\ targetUrl = (IF isBot THEN BOT_URL ELSE REAL_URL)
              /\ response = aloneResponse)

\* C26 witness: a crawler's request was relayed the decoy by the SSR
\* variant while a human's request, started before it, was still awaiting
\* its fetch
C26_Witness ==
    /\ handled
    /\ variant = "ssr"
    /\ Len(parked) = 1
    /\ parked[1].isBot = FALSE
    /\ isBot = TRUE
    /\ fetchResolved
    /\ response.status = 200
    /\ response.headers["x-bot-detection"] = "bot"

====
